---- MODULE Spec2Model ----
(***************************************************************************)
(* Real-time triage admission and queueing engine of src/app.py: the       *)
(* department capacity table, the per-department queues, the patient       *)
(* registry and the session id, with the handlers that read and change     *)
(* them.  Handlers run one at a time.                                      *)
(*                                                                         *)
(* `response' is the body of the last HTTP response, without its           *)
(* timestamp.  `call' records the last handler call: the handler, the      *)
(* arguments it read and, for an admission, the department the classifier  *)
(* gave and the department chosen for each patient it admitted; for a      *)
(* Reset, the number of queue entries it dropped; for a Status, the        *)
(* handler called before it.                                               *)
(*                                                                         *)
(* `threads' holds the handlers that run at the same time in the worker    *)
(* threads of the server: for each worker its position in the handler and  *)
(* the locals of the handler.  It stays idle where handlers run one at a    *)
(* time.                                                                   *)
(*                                                                         *)
(* Time: `now' is the wall clock in whole minutes.  Scores are integers in *)
(* thousandths of a point, so 0.1 point per minute is 100 per minute.      *)
(***************************************************************************)
EXTENDS Integers, Sequences, FiniteSets, TLC

VARIABLES DEPARTMENT_CAPACITY, DEPARTMENT_QUEUES, PATIENT_REGISTRY,
          TRIAGE_SESSION_ID, now, call, response, threads

vars == <<DEPARTMENT_CAPACITY, DEPARTMENT_QUEUES, PATIENT_REGISTRY,
          TRIAGE_SESSION_ID, now, call, response, threads>>

engine == <<DEPARTMENT_CAPACITY, DEPARTMENT_QUEUES, PATIENT_REGISTRY,
            TRIAGE_SESSION_ID>>

----------------------------------------------------------------------------
(* Bounds of the model *)

MaxPatients == 3      \* admissions accepted per session
MaxCapacity == 2      \* largest capacity configured or set by an update
MaxClock    == 1      \* last clock reading
MaxBatch    == 2      \* longest batch
MaxMinutes  == 310    \* last clock reading of SpecScore
MaxArrival  == 1      \* last arrival time of SpecScore

----------------------------------------------------------------------------
(* Departments, in the key order of the capacity dict (a prefix of the     *)
(* built-in table), and the other values the handlers may be given.        *)

DeptOrder == <<"Cardiology", "Emergency">>

Departments == {DeptOrder[i] : i \in 1..Len(DeptOrder)}

UnknownDept == "Oncology"

DefaultCapacity == 10          \* DEPARTMENT_CAPACITY.get(dept, 10)

RiskLabels == {"high", "medium", "low"}

PatientIds == {"P001"}

NoId == "<missing>"            \* request without a patient_id key

ListId == "[P001]"             \* patient_id given as a JSON array

\* hash(patient_id) succeeds: a JSON string or number, not an array or object
Hashable(patient_id) == patient_id /= ListId

NoSession == -1                \* TRIAGE_SESSION_ID = None

\* the worker threads of the server
Workers == {"w1", "w2"}

NoThreads == [w \in Workers |-> [pc |-> "idle", op |-> "none", served |-> 0]]

Min(a, b) == IF a <= b THEN a ELSE b

----------------------------------------------------------------------------
(* TriagePatient *)

\* TriagePatient with risk_level and department taken in the other order
TriagePatientSwapped(patient_id, risk_level, department, t) ==
    [patient_id   |-> patient_id,
     risk_level   |-> department,
     department   |-> risk_level,
     arrival_time |-> t]

\* TriagePatient(patient_id, risk_level, department) at clock reading t
TriagePatient(patient_id, risk_level, department, t) ==
    [patient_id   |-> patient_id,
     risk_level   |-> risk_level,
     department   |-> department,
     arrival_time |-> t]

\* risk_scores with .get(risk_level, 0)
risk_scores_default_zero(risk_level) ==
    CASE risk_level = "high"   -> 100
      [] risk_level = "medium" -> 50
      [] risk_level = "low"    -> 10
      [] OTHER                 -> 0

risk_scores(risk_level) ==
    CASE risk_level = "high"   -> 100
      [] risk_level = "medium" -> 50
      [] risk_level = "low"    -> 10
      [] OTHER                 -> 10

WaitBonusCap == 30

\* CalculatePriorityAt without the cap on the wait bonus
CalculatePriorityUncapped(risk_level, arrival_time, t) ==
    risk_scores(risk_level) * 1000 + (t - arrival_time) * 100

\* base_score + min(age_minutes * 0.1, 30), in thousandths of a point
CalculatePriorityAt(risk_level, arrival_time, t) ==
    risk_scores(risk_level) * 1000
        + Min((t - arrival_time) * 100, WaitBonusCap * 1000)

CalculatePriority(p, t) == CalculatePriorityAt(p.risk_level, p.arrival_time, t)

----------------------------------------------------------------------------
(* Load balancing *)

QueueLen(queues, d) == IF d \in DOMAIN queues THEN Len(queues[d]) ELSE 0

CapacityOf(caps, d) == IF d \in DOMAIN caps THEN caps[d] ELSE DefaultCapacity

\* LeastLoaded with max in place of min
MostLoaded(queues) ==
    LET i == CHOOSE i \in 1..Len(DeptOrder) :
                 /\ \A j \in 1..Len(DeptOrder) :
                        Len(queues[DeptOrder[i]]) >= Len(queues[DeptOrder[j]])
                 /\ \A j \in 1..(i - 1) :
                        Len(queues[DeptOrder[j]]) < Len(queues[DeptOrder[i]])
    IN  DeptOrder[i]

\* min(alternative_depts, key=alternative_depts.get): the first department,
\* in dict order, among those of minimum queue length
LeastLoaded(queues) ==
    LET i == CHOOSE i \in 1..Len(DeptOrder) :
                 /\ \A j \in 1..Len(DeptOrder) :
                        Len(queues[DeptOrder[i]]) <= Len(queues[DeptOrder[j]])
                 /\ \A j \in 1..(i - 1) :
                        Len(queues[DeptOrder[j]]) > Len(queues[DeptOrder[i]])
    IN  DeptOrder[i]

\* Assign with the saturation test written > instead of >=
AssignStrict(queues, caps, primary_dept) ==
    IF QueueLen(queues, primary_dept) > CapacityOf(caps, primary_dept)
    THEN LeastLoaded(queues)
    ELSE primary_dept

Assign(queues, caps, primary_dept) ==
    IF QueueLen(queues, primary_dept) >= CapacityOf(caps, primary_dept)
    THEN LeastLoaded(queues)
    ELSE primary_dept

TotalQueued(queues) ==
    LET RECURSIVE Sum(_)
        Sum(i) == IF i = 0 THEN 0
                  ELSE Len(queues[DeptOrder[i]]) + Sum(i - 1)
    IN  Sum(Len(DeptOrder))

----------------------------------------------------------------------------
(* Values exchanged with the callers and the collaborators *)

\* round(x, n) of Python on an exact decimal: x counts units, d units make
\* one step of the rounded result; ties go to the even step
RoundHalfEven(x, d) ==
    LET q == x \div d
        r == x % d
    IN  IF 2 * r > d \/ (2 * r = d /\ q % 2 = 1) THEN q + 1 ELSE q

\* f"P_{int(datetime.now().timestamp() * 1000)}"
SynthesizedId(t) == "P_" \o ToString(t * 60000)

\* data.get('patient_id', <synthesized>)
ResolveId(pid, t) == IF pid = NoId THEN SynthesizedId(t) ELSE pid

\* f"SESSION_{datetime.now().strftime('%Y%m%d_%H%M%S')}": the clock reading
\* in whole seconds
SessionIdAt(t) == t * 60

\* What float()/int() of the vitals and the classifier do with one patient
\* input: raise on a malformed vital, raise in the classifier, or classify.
ClassifierDepts == Departments \cup {UnknownDept}

Outcomes(risks) ==
    {[kind |-> "invalid_input", risk_level |-> "low", department |-> UnknownDept],
     [kind |-> "classifier_error", risk_level |-> "low", department |-> UnknownDept]}
    \cup [kind : {"classified"}, risk_level : risks, department : ClassifierDepts]

\* One posted patient: the patient_id, the pain_level ("whole": an integer,
\* "fraction": the text of a number with a fraction, such as "3.5"), the state
\* of the patient store when the record is saved, and what the other vitals
\* and the classifier give.
\* Patients posted in Spec.  Routing never reads the risk level, so one label
\* stands for all of them there.
PatientInputs ==
    [patient_id : PatientIds \cup {NoId}, pain_level : {"whole"},
     store : {"up"}, outcome : Outcomes({"high"})]

\* int(data.get('pain_level', 0)) in triage_patient raises on the text of a
\* number with a fraction; float(patient.get(col, 0)) in triage_batch_stream
\* accepts it
ParsedBy(handler, input) ==
    IF handler = "triage_patient" /\ input.pain_level = "fraction"
    THEN [input EXCEPT !.outcome =
             [kind |-> "invalid_input", risk_level |-> "low",
              department |-> UnknownDept]]
    ELSE input

\* SavePatientRecord without the try/except around the store
SavePatientRecordUnguarded(store) ==
    [raised |-> store /= "up", saved |-> store = "up"]

\* save_patient_record: every exception of the store is caught and False is
\* returned
SavePatientRecord(store) == [raised |-> FALSE, saved |-> store = "up"]

EmptyQueues == [d \in Departments |-> <<>>]

EmptyRegistry == [k \in {} |-> TriagePatient("", "", "", 0)]

ErrorResponse(op, err) ==
    [op |-> op, success |-> FALSE, status |-> 400, error |-> err]

----------------------------------------------------------------------------
(* One admission: the body shared by triage_patient and by one iteration   *)
(* of triage_batch_stream.  Returns the new queues and registry and the    *)
(* result; an exception keeps what the statements before it have changed.  *)

\* Enqueue at the head of the queue
EnqueueFront(queue, obj) == <<obj>> \o queue

\* Enqueue that leaves the queue as it is
EnqueueDropped(queue, obj) == queue

\* DEPARTMENT_QUEUES[assigned_dept].append(triage_patient_obj)
Enqueue(queue, obj) == Append(queue, obj)

\* QueuePosition as the index of the appended entry
QueueIndex(queues, dept) == Len(queues[dept]) - 1

\* len(DEPARTMENT_QUEUES[assigned_dept]) after the append
QueuePosition(queues, dept) == Len(queues[dept])

Route(r) == [primary |-> r.primary_department, assigned |-> r.assigned_department]

AdmitOne(queues, registry, caps, input, t) ==
    LET patient_id    == ResolveId(input.patient_id, t)
        risk_level    == input.outcome.risk_level
        primary_dept  == input.outcome.department
        assigned_dept == Assign(queues, caps, primary_dept)
        obj           == TriagePatient(patient_id, risk_level, assigned_dept, t)
        unchanged(err) == [queues |-> queues, registry |-> registry,
                           ok |-> FALSE, error |-> err]
    IN  IF input.outcome.kind = "invalid_input" THEN unchanged("ValueError")
        ELSE IF input.outcome.kind = "classifier_error"
        THEN unchanged("ClassifierError")
        ELSE IF assigned_dept \notin DOMAIN queues THEN unchanged("KeyError")
        ELSE
          LET queues2 == [queues EXCEPT ![assigned_dept] = Enqueue(@, obj)]
              registry2 == [k \in DOMAIN registry \cup {patient_id} |->
                               IF k = patient_id THEN obj ELSE registry[k]]
              record == SavePatientRecord(input.store)
              queue_size == Len(queues2[assigned_dept])
          IN  IF ~Hashable(patient_id)
              THEN \* PATIENT_REGISTRY[patient_id] = ... raises after the append
                   [queues |-> queues2, registry |-> registry,
                    ok |-> FALSE, error |-> "TypeError"]
              ELSE IF record.raised
              THEN [queues |-> queues2, registry |-> registry2,
                    ok |-> FALSE, error |-> "StoreError"]
              ELSE
              [queues |-> queues2, registry |-> registry2, ok |-> TRUE,
               patient_id |-> patient_id,
               risk_level |-> risk_level,
               assigned_department |-> assigned_dept,
               primary_department |-> primary_dept,
               load_balanced |-> (assigned_dept /= primary_dept),
               queue_position |-> QueuePosition(queues2, assigned_dept),
               \* round(queue_size * 2.5, 1), in tenths of a minute
               estimated_wait_time_minutes |-> RoundHalfEven(queue_size * 250, 10)]

----------------------------------------------------------------------------
(* State after the module has been imported: capacities from the built-in  *)
(* table or the capacity file, one empty queue per department.             *)

CapacityConfigs == [Departments -> 1..MaxCapacity]

Init ==
    /\ DEPARTMENT_CAPACITY \in CapacityConfigs
    /\ DEPARTMENT_QUEUES = EmptyQueues
    /\ PATIENT_REGISTRY = EmptyRegistry
    /\ TRIAGE_SESSION_ID = NoSession
    /\ now = 0
    /\ call = [op |-> "none"]
    /\ response = [op |-> "none"]
    /\ threads = NoThreads

\* the wall clock advances between two handlers
Tick ==
    /\ now < MaxClock
    /\ now' = now + 1
    /\ UNCHANGED <<engine, call, response, threads>>

\* Reset that leaves the registry as it is
ResetQueuesOnly ==
    /\ TRIAGE_SESSION_ID' = SessionIdAt(now)
    /\ DEPARTMENT_QUEUES' = [d \in DOMAIN DEPARTMENT_CAPACITY |-> <<>>]
    /\ call' = [op |-> "Reset", cleared |-> TotalQueued(DEPARTMENT_QUEUES)]
    /\ response' = [op |-> "Reset", success |-> TRUE, status |-> 200,
                    session_id |-> SessionIdAt(now)]
    /\ UNCHANGED <<DEPARTMENT_CAPACITY, PATIENT_REGISTRY, now, threads>>

\* the wall clock after a long time without requests
Leap ==
    /\ now <= MaxClock
    /\ now' = MaxMinutes - 10
    /\ UNCHANGED <<engine, call, response, threads>>

\* POST /init-triage-session
Reset ==
    /\ TRIAGE_SESSION_ID' = SessionIdAt(now)
    /\ DEPARTMENT_QUEUES' = [d \in DOMAIN DEPARTMENT_CAPACITY |-> <<>>]
    /\ PATIENT_REGISTRY' = EmptyRegistry
    /\ call' = [op |-> "Reset", cleared |-> TotalQueued(DEPARTMENT_QUEUES)]
    /\ response' = [op |-> "Reset", success |-> TRUE, status |-> 200,
                    session_id |-> SessionIdAt(now)]
    /\ UNCHANGED <<DEPARTMENT_CAPACITY, now, threads>>

\* the body of the response of triage_patient
AdmitResponse(r) ==
    IF r.ok
    THEN [op |-> "Admit", success |-> TRUE, status |-> 200,
          patient_id |-> r.patient_id,
          risk_level |-> r.risk_level,
          assigned_department |-> r.assigned_department,
          primary_department |-> r.primary_department,
          load_balanced |-> r.load_balanced,
          queue_position |-> r.queue_position,
          estimated_wait_time_minutes |-> r.estimated_wait_time_minutes]
    ELSE ErrorResponse("Admit", r.error)

\* POST /triage-patient
AdmitFrom(inputs) ==
    \E input \in inputs :
       LET r == AdmitOne(DEPARTMENT_QUEUES, PATIENT_REGISTRY,
                         DEPARTMENT_CAPACITY,
                         ParsedBy("triage_patient", input), now)
       IN  /\ TotalQueued(DEPARTMENT_QUEUES) < MaxPatients
           /\ DEPARTMENT_QUEUES' = r.queues
           /\ PATIENT_REGISTRY' = r.registry
           /\ call' = [op |-> "Admit", patients |-> <<input>>,
                       reads |-> <<now>>,
                       routed |-> IF r.ok THEN <<Route(r)>> ELSE <<>>]
           /\ response' = AdmitResponse(r)
           /\ UNCHANGED <<DEPARTMENT_CAPACITY, TRIAGE_SESSION_ID, now, threads>>

\* BatchLoop that takes back the earlier admissions of the batch when a
\* patient raises
RECURSIVE BatchLoopRollback(_, _, _, _, _, _, _)
BatchLoopRollback(queues, registry, caps, patients, reads, results, routed) ==
    IF patients = <<>>
    THEN [queues |-> queues, registry |-> registry, ok |-> TRUE,
          results |-> results, routed |-> routed]
    ELSE LET r == AdmitOne(queues, registry, caps,
                           ParsedBy("triage_batch_stream", Head(patients)),
                           Head(reads))
             Into(d) == Cardinality({j \in 1..Len(routed) :
                                        routed[j].assigned = d})
             admitted == {results[j].patient_id : j \in 1..Len(results)}
         IN  IF ~r.ok
             THEN [queues |-> [d \in DOMAIN queues |->
                                 SubSeq(queues[d], 1, Len(queues[d]) - Into(d))],
                   registry |-> [k \in DOMAIN registry \ admitted |->
                                    registry[k]],
                   ok |-> FALSE, error |-> r.error, results |-> results,
                   routed |-> routed]
             ELSE BatchLoopRollback(r.queues, r.registry, caps, Tail(patients),
                            Tail(reads),
                            Append(results,
                                   [patient_id |-> r.patient_id,
                                    risk_level |-> r.risk_level,
                                    assigned_department |-> r.assigned_department,
                                    queue_position |-> r.queue_position,
                                    estimated_wait_time_minutes |->
                                        r.estimated_wait_time_minutes]),
                            Append(routed, Route(r)))

\* The loop of triage_batch_stream over the patients still to process, one
\* clock reading per patient.  An exception leaves the loop; what earlier
\* iterations did stays.
RECURSIVE BatchLoop(_, _, _, _, _, _, _)
BatchLoop(queues, registry, caps, patients, reads, results, routed) ==
    IF patients = <<>>
    THEN [queues |-> queues, registry |-> registry, ok |-> TRUE,
          results |-> results, routed |-> routed]
    ELSE LET r == AdmitOne(queues, registry, caps,
                           ParsedBy("triage_batch_stream", Head(patients)),
                           Head(reads))
         IN  IF ~r.ok
             THEN [queues |-> r.queues, registry |-> r.registry, ok |-> FALSE,
                   error |-> r.error, results |-> results,
                   routed |-> routed]
             ELSE BatchLoop(r.queues, r.registry, caps, Tail(patients),
                            Tail(reads),
                            Append(results,
                                   [patient_id |-> r.patient_id,
                                    risk_level |-> r.risk_level,
                                    assigned_department |-> r.assigned_department,
                                    queue_position |-> r.queue_position,
                                    estimated_wait_time_minutes |->
                                        r.estimated_wait_time_minutes]),
                            Append(routed, Route(r)))

\* an input on which one iteration of triage_batch_stream raises
Raises(input) ==
    \/ input.outcome.kind /= "classified"
    \/ input.outcome.department \notin Departments
    \/ ~Hashable(input.patient_id)
    \/ SavePatientRecord(input.store).raised

\* the lists of n patients in which no patient before the last raises
BatchLists(inputs, n) ==
    IF n = 0 THEN {<<>>}
    ELSE {Append(front, last) :
             front \in [1..(n - 1) -> {p \in inputs : ~Raises(p)}],
             last \in inputs}

\* the number of patients of a posted list that the loop takes up: all of
\* them, or those up to and including the first that raises
RECURSIVE ReadCount(_)
ReadCount(patients) ==
    IF patients = <<>> THEN 0
    ELSE IF Raises(Head(patients)) THEN 1
    ELSE 1 + ReadCount(Tail(patients))

\* the clock readings a handler that starts at t may get: up to MaxClock, or,
\* after a long wait, t itself and MaxMinutes
ReadTimes(t) == IF t <= MaxClock THEN t..MaxClock ELSE {t, MaxMinutes}

\* clock readings taken one after the other, starting at t
ClockReads(t, n) ==
    {reads \in [1..n -> ReadTimes(t)] :
        \A i \in 1..(n - 1) : reads[i] <= reads[i + 1]}

LastRead(t, reads) == IF reads = <<>> THEN t ELSE reads[Len(reads)]

Admit == AdmitFrom(PatientInputs)

\* POST /triage-batch-stream with one of the lists of `posted'
AdmitBatchFrom(posted) ==
    \E patients \in posted :
        \E reads \in ClockReads(now, ReadCount(patients)) :
          LET r == BatchLoop(DEPARTMENT_QUEUES, PATIENT_REGISTRY,
                             DEPARTMENT_CAPACITY,
                             SubSeq(patients, 1, ReadCount(patients)),
                             reads, <<>>, <<>>)
          IN  /\ TotalQueued(DEPARTMENT_QUEUES) + Len(patients) <= MaxPatients
              /\ DEPARTMENT_QUEUES' = r.queues
              /\ PATIENT_REGISTRY' = r.registry
              /\ now' = LastRead(now, reads)
              /\ call' = [op |-> "AdmitBatch", patients |-> patients,
                          reads |-> reads, routed |-> r.routed]
              /\ response' =
                   IF r.ok
                   THEN [op |-> "AdmitBatch", success |-> TRUE, status |-> 200,
                         patients_processed |-> Len(r.results),
                         results |-> r.results]
                   ELSE ErrorResponse("AdmitBatch", r.error)
              /\ UNCHANGED <<DEPARTMENT_CAPACITY, TRIAGE_SESSION_ID, threads>>

\* Lists posted in Spec: a failing patient, if any, comes last
PostedLists == UNION {BatchLists(PatientInputs, n) : n \in 0..MaxBatch}

AdmitBatch == AdmitBatchFrom(PostedLists)

----------------------------------------------------------------------------
(* Capacity administration *)

NoDept == ""                   \* department missing from the request

\* The 'capacity' of the request body: absent, a JSON integer, a JSON number
\* with a fraction, or a string that is not a number.  Numbers are kept in
\* tenths.
CapacityInputs ==
    {[type |-> "none", tenths |-> 0], [type |-> "text", tenths |-> 0]}
    \cup [type : {"int"}, tenths : {-50, 0} \cup {10 * c : c \in 1..MaxCapacity}]
    \cup [type : {"float"}, tenths : {5, 10 * MaxCapacity - 3}]

\* int(capacity) on a number: truncation toward zero
IntOf(tenths) == IF tenths >= 0 THEN tenths \div 10 ELSE -((-tenths) \div 10)

\* PositiveInteger with the test written capacity < 0
NonNegativeInteger(capacity) ==
    capacity.type /= "text" /\ IntOf(capacity.tenths) >= 0

\* capacity = int(capacity) succeeds and capacity > 0
PositiveInteger(capacity) ==
    capacity.type /= "text" /\ IntOf(capacity.tenths) > 0

\* SetCapacity that gives every department the new capacity
SetCapacityAll(caps, department, capacity) ==
    [d \in DOMAIN caps |-> capacity]

\* DEPARTMENT_CAPACITY[department] = capacity
SetCapacity(caps, department, capacity) ==
    [caps EXCEPT ![department] = capacity]

\* POST /update-department-capacity
UpdateCapacity ==
    \E department \in Departments \cup {UnknownDept, NoDept},
       capacity \in CapacityInputs :
       LET op == "UpdateCapacity"
           fail(err) ==
              /\ response' = ErrorResponse(op, err)
              /\ UNCHANGED DEPARTMENT_CAPACITY
       IN  /\ call' = [op |-> op, department |-> department,
                       capacity |-> capacity]
           /\ UNCHANGED <<DEPARTMENT_QUEUES, PATIENT_REGISTRY,
                          TRIAGE_SESSION_ID, now, threads>>
           /\ IF department = NoDept \/ capacity.type = "none"
              THEN fail("Department and capacity are required")
              ELSE IF ~PositiveInteger(capacity)
              THEN fail("Capacity must be a positive integer")
              ELSE IF department \notin DOMAIN DEPARTMENT_CAPACITY
              THEN fail("Department not found")
              ELSE /\ DEPARTMENT_CAPACITY' =
                        SetCapacity(DEPARTMENT_CAPACITY, department,
                                    IntOf(capacity.tenths))
                   /\ response' =
                        [op |-> op, success |-> TRUE, status |-> 200,
                         department |-> department,
                         old_capacity |-> DEPARTMENT_CAPACITY[department],
                         new_capacity |-> IntOf(capacity.tenths)]

----------------------------------------------------------------------------
(* Prioritized queue *)

\* str.lower() on the strings of the model
Lower(str) ==
    CASE str = "HIGH"       -> "high"
      [] str = "Cardiology" -> "cardiology"
      [] str = "Emergency"  -> "emergency"
      [] str = "Oncology"   -> "oncology"
      [] OTHER              -> str

Categories == {"all", "high", "medium", "low", "HIGH", "walk-in"} \cup Departments

\* InsertDesc for an ascending sort (reverse=True left out)
RECURSIVE InsertAsc(_, _)
InsertAsc(sorted, x) ==
    IF sorted = <<>> THEN <<x>>
    ELSE IF Head(sorted).key <= x.key
         THEN <<Head(sorted)>> \o InsertAsc(Tail(sorted), x)
         ELSE <<x>> \o sorted

RECURSIVE InsertDesc(_, _)
InsertDesc(sorted, x) ==
    IF sorted = <<>> THEN <<x>>
    ELSE IF Head(sorted).key >= x.key
         THEN <<Head(sorted)>> \o InsertDesc(Tail(sorted), x)
         ELSE <<x>> \o sorted

\* sorted(pairs, key=..., reverse=True): descending by key, equal keys in
\* their order of the input
RECURSIVE SortedDesc(_)
SortedDesc(pairs) ==
    IF pairs = <<>> THEN <<>>
    ELSE InsertDesc(SortedDesc(SubSeq(pairs, 1, Len(pairs) - 1)),
                    pairs[Len(pairs)])

SelectByRisk(queue, category_lower) ==
    SelectSeq(queue, LAMBDA p : Lower(p.risk_level) = category_lower)

SelectByDepartment(queue, category) ==
    SelectSeq(queue, LAMBDA p : p.department = category)

FilterQueue(queues, queue, category) ==
    IF category = "all" THEN queue
    ELSE IF Lower(category) \in {"high", "medium", "low"}
    THEN SelectByRisk(queue, Lower(category))
    ELSE IF category \in DOMAIN queues
    THEN SelectByDepartment(queue, category)
    ELSE queue

\* The sort calls _calculate_priority once per entry, in queue order, and
\* each call reads the clock: reads[1..n].  The listing then reads the clock
\* twice per position, for the score and for the wait: reads[n+2i-1],
\* reads[n+2i].
PrioritizedQueue(filtered, reads) ==
    LET n == Len(filtered)
        pairs == [i \in 1..n |->
                    [key |-> CalculatePriority(filtered[i], reads[i]),
                     patient |-> filtered[i]]]
        prioritized == SortedDesc(pairs)
    IN  [idx \in 1..n |->
            LET patient == prioritized[idx].patient
            IN  [position |-> idx,
                 patient_id |-> patient.patient_id,
                 risk_level |-> patient.risk_level,
                 \* round(score, 2), in hundredths of a point
                 priority_score |->
                     RoundHalfEven(CalculatePriority(patient,
                                                     reads[n + 2 * idx - 1]), 10),
                 \* round(minutes, 1), in tenths of a minute
                 wait_time_minutes |->
                     RoundHalfEven((reads[n + 2 * idx] - patient.arrival_time)
                                       * 100, 10),
                 arrival_time |-> patient.arrival_time]]

\* KnownQueue without the membership test
AnyQueue(queues, department) == TRUE

\* department in DEPARTMENT_QUEUES
KnownQueue(queues, department) == department \in DOMAIN queues

\* GET /queue-priority?department=...&category=...
QueuePriorityOf(departments, categories) ==
    \E department \in departments, category \in categories :
       /\ call' = [op |-> "QueuePriority", department |-> department,
                   category |-> category]
       /\ UNCHANGED <<engine, threads>>
       /\ IF ~KnownQueue(DEPARTMENT_QUEUES, department)
          THEN /\ response' = ErrorResponse("QueuePriority", "Invalid department")
               /\ UNCHANGED now
          ELSE IF department \notin DOMAIN DEPARTMENT_QUEUES
          THEN \* DEPARTMENT_QUEUES[department] raises
               /\ response' = ErrorResponse("QueuePriority", "KeyError")
               /\ UNCHANGED now
          ELSE LET queue == DEPARTMENT_QUEUES[department]
                   filtered == FilterQueue(DEPARTMENT_QUEUES, queue, category)
               IN  \E reads \in ClockReads(now, 3 * Len(filtered)) :
                      /\ now' = LastRead(now, reads)
                      /\ response' =
                           [op |-> "QueuePriority", success |-> TRUE,
                            status |-> 200,
                            department |-> department,
                            category_filter |-> category,
                            prioritized_queue |-> PrioritizedQueue(filtered, reads),
                            total_in_queue |-> Len(queue),
                            filtered_count |-> Len(filtered)]

QueuePriority == QueuePriorityOf(Departments \cup {UnknownDept}, Categories)

----------------------------------------------------------------------------
(* Department status *)

\* (len(queue) / capacity) * 100 > pct, for a capacity other than 0
UtilizationAbove(size, capacity, pct) ==
    IF capacity > 0 THEN 100 * size > pct * capacity
    ELSE 100 * size < pct * capacity

\* StatusTier with the first test written utilization >= 100
StatusTierFrom100(size, capacity) ==
    IF ~UtilizationAbove(size, capacity, 100) /\ 100 * size /= 100 * capacity
    THEN IF UtilizationAbove(size, capacity, 80) THEN "AT_CAPACITY"
         ELSE IF UtilizationAbove(size, capacity, 50) THEN "BUSY"
         ELSE "AVAILABLE"
    ELSE "CRITICAL"

\* the if/elif chain on utilization
StatusTier(size, capacity) ==
    IF UtilizationAbove(size, capacity, 100) THEN "CRITICAL"
    ELSE IF UtilizationAbove(size, capacity, 80) THEN "AT_CAPACITY"
    ELSE IF UtilizationAbove(size, capacity, 50) THEN "BUSY"
    ELSE "AVAILABLE"

CountRisk(queue, risk_level) ==
    Cardinality({i \in 1..Len(queue) : queue[i].risk_level = risk_level})

\* status[dept], for a capacity > 0; percentages and minutes in tenths
DepartmentStatus(queue, capacity) ==
    [current_patients |-> Len(queue),
     capacity |-> capacity,
     utilization_percentage |-> RoundHalfEven(1000 * Len(queue), capacity),
     status |-> StatusTier(Len(queue), capacity),
     high_risk_count |-> CountRisk(queue, "high"),
     medium_risk_count |-> CountRisk(queue, "medium"),
     low_risk_count |-> CountRisk(queue, "low"),
     estimated_wait_time_minutes |-> RoundHalfEven(Len(queue) * 250, 10)]

\* GET /department-status
Status ==
    /\ call' = [op |-> "Status", after |-> call.op,
                cleared |-> IF call.op = "Reset" THEN call.cleared ELSE 0]
    /\ UNCHANGED <<engine, now, threads>>
    /\ IF \E d \in DOMAIN DEPARTMENT_QUEUES :
             CapacityOf(DEPARTMENT_CAPACITY, d) = 0
       THEN response' = ErrorResponse("Status", "ZeroDivisionError")
       ELSE response' =
              [op |-> "Status", success |-> TRUE, status |-> 200,
               session_id |-> TRIAGE_SESSION_ID,
               department_status |->
                   [d \in DOMAIN DEPARTMENT_QUEUES |->
                       DepartmentStatus(DEPARTMENT_QUEUES[d],
                                        CapacityOf(DEPARTMENT_CAPACITY, d))],
               total_patients_in_system |-> Cardinality(DOMAIN PATIENT_REGISTRY)]

----------------------------------------------------------------------------
(* Resource utilization *)

\* risk_weights.get(p.risk_level, 1), in halves
risk_weights(risk_level) ==
    CASE risk_level = "high"   -> 3
      [] risk_level = "medium" -> 2
      [] risk_level = "low"    -> 1
      [] OTHER                 -> 2

\* sum(risk_weights.get(p.risk_level, 1) for p in queue), in halves
RECURSIVE WeightedLoad(_)
WeightedLoad(queue) ==
    IF queue = <<>> THEN 0
    ELSE risk_weights(Head(queue).risk_level) + WeightedLoad(Tail(queue))

\* utilization_metrics[dept], for a capacity > 0; percentages and scores in
\* tenths
UtilizationMetrics(queue, capacity) ==
    LET current == Len(queue)
        halves == WeightedLoad(queue)
    IN  [capacity |-> capacity,
         current_patients |-> current,
         utilization_percentage |-> RoundHalfEven(1000 * current, capacity),
         weighted_utilization_percentage |->
             RoundHalfEven(500 * halves, capacity),
         \* (100 - min(utilization, 100)) + (weighted_utilization / 2)
         efficiency_score |->
             RoundHalfEven(10 * (100 * capacity
                                   - Min(100 * current, 100 * capacity)
                                   + 25 * halves), capacity)]

\* total_utilization after the first n departments, as a fraction
RECURSIVE TotalUtilization(_, _, _)
TotalUtilization(queues, caps, n) ==
    IF n = 0 THEN [num |-> 0, den |-> 1]
    ELSE LET rest == TotalUtilization(queues, caps, n - 1)
             d == DeptOrder[n]
         IN  [num |-> rest.num * caps[d] + 100 * Len(queues[d]) * rest.den,
              den |-> rest.den * caps[d]]

\* GET /resource-utilization
Utilization ==
    /\ call' = [op |-> "Utilization"]
    /\ UNCHANGED <<engine, now, threads>>
    /\ IF \E d \in DOMAIN DEPARTMENT_QUEUES :
             CapacityOf(DEPARTMENT_CAPACITY, d) = 0
       THEN response' = ErrorResponse("Utilization", "ZeroDivisionError")
       ELSE LET total == TotalUtilization(DEPARTMENT_QUEUES, DEPARTMENT_CAPACITY,
                                          Len(DeptOrder))
                \* avg_utilization = total_utilization / len(DEPARTMENT_QUEUES)
                avg == [num |-> total.num, den |-> total.den * Len(DeptOrder)]
            IN  response' =
                  [op |-> "Utilization", success |-> TRUE, status |-> 200,
                   utilization_metrics |->
                       [d \in DOMAIN DEPARTMENT_QUEUES |->
                           UtilizationMetrics(DEPARTMENT_QUEUES[d],
                                              CapacityOf(DEPARTMENT_CAPACITY, d))],
                   average_utilization_percentage |->
                       RoundHalfEven(10 * avg.num, avg.den),
                   total_patients_in_system |->
                       Cardinality(DOMAIN PATIENT_REGISTRY),
                   \* (100 - min(avg_utilization, 100)) * 1.2
                   system_efficiency_score |->
                       RoundHalfEven(12 * (100 * avg.den
                                             - Min(avg.num, 100 * avg.den)),
                                     avg.den)]

----------------------------------------------------------------------------
(* Specifications *)

\* Admission and routing, one handler at a time
Next == Tick \/ Reset \/ Admit \/ AdmitBatch

Spec == Init /\ [][Next]_vars

\* Admission and capacity administration, one handler at a time
NextCapacity == Tick \/ Reset \/ Admit \/ UpdateCapacity

SpecCapacity == Init /\ [][NextCapacity]_vars

\* Patients posted in SpecQueue: no id, every risk label
QueueInputs ==
    [patient_id : {NoId}, pain_level : {"whole"}, store : {"up"},
     outcome : [kind : {"classified"}, risk_level : RiskLabels,
                department : {"Emergency"}]]

AdmitQueued == AdmitFrom(QueueInputs)

\* Admissions and reads of the prioritized queue, one handler at a time
NextQueue == Tick \/ AdmitQueued \/ QueuePriority

SpecQueue == Init /\ [][NextQueue]_vars

\* Patients posted in SpecStatus and SpecLoaded: no id, one risk label,
\* either department
StatusInputs ==
    [patient_id : {NoId}, pain_level : {"whole"}, store : {"up"},
     outcome : [kind : {"classified"}, risk_level : {"high"},
                department : Departments]]

AdmitCounted == AdmitFrom(StatusInputs)

\* capacities that let a queue be half full, two thirds full, full and more
StatusConfigs == [Departments -> {1, MaxCapacity + 1}]

InitStatus ==
    /\ DEPARTMENT_CAPACITY \in StatusConfigs
    /\ DEPARTMENT_QUEUES = EmptyQueues
    /\ PATIENT_REGISTRY = EmptyRegistry
    /\ TRIAGE_SESSION_ID = NoSession
    /\ now = 0
    /\ call = [op |-> "none"]
    /\ response = [op |-> "none"]
    /\ threads = NoThreads

\* Admissions, resets and reads of the department status
NextStatus == Tick \/ Reset \/ AdmitCounted \/ Status

SpecStatus == InitStatus /\ [][NextStatus]_vars

\* Patients posted in SpecBatch: no id, either department or a failure of the
\* classifier, either form of pain_level
BatchInputs ==
    [patient_id : {NoId}, pain_level : {"whole", "fraction"}, store : {"up"},
     outcome : {o \in Outcomes({"high"}) :
                   \/ o.kind = "classifier_error"
                   \/ o.kind = "classified" /\ o.department \in Departments}]

\* every list of at most MaxBatch of them
BatchPosted == UNION {[1..n -> BatchInputs] : n \in 0..MaxBatch}

AdmitBatchPosted == AdmitBatchFrom(BatchPosted)

\* Batches with a failing patient anywhere in the list
NextBatch == Tick \/ AdmitBatchPosted

SpecBatch == Init /\ [][NextBatch]_vars

\* Patients posted in SpecAdmit: every kind of id, of pain_level and of
\* outcome
AdmitInputs ==
    [patient_id : {NoId, ListId}, pain_level : {"whole", "fraction"},
     store : {"up"}, outcome : Outcomes({"high"})]

AdmitAny == AdmitFrom(AdmitInputs)

\* Single admissions, failing ones included
NextAdmit == Tick \/ AdmitAny

SpecAdmit == Init /\ [][NextAdmit]_vars

\* Patients posted in SpecStore: the patient store up or down
StoreInputs ==
    [patient_id : {NoId}, pain_level : {"whole"}, store : {"up", "down"},
     outcome : [kind : {"classified"}, risk_level : {"high"},
                department : Departments]]

StorePosted == UNION {[1..n -> StoreInputs] : n \in 0..MaxBatch}

AdmitStored == AdmitFrom(StoreInputs)

AdmitBatchStored == AdmitBatchFrom(StorePosted)

\* Admissions while the patient store fails
NextStore == Tick \/ AdmitStored \/ AdmitBatchStored

SpecStore == Init /\ [][NextStore]_vars

CountedPosted == UNION {[1..n -> StatusInputs] : n \in 0..MaxBatch}

AdmitBatchCounted == AdmitBatchFrom(CountedPosted)

\* Every handler of the engine, one at a time
NextAll ==
    \/ Tick
    \/ Reset
    \/ AdmitCounted
    \/ AdmitBatchCounted
    \/ Status
    \/ QueuePriority
    \/ Utilization
    \/ UpdateCapacity

SpecAll == Init /\ [][NextAll]_vars

----------------------------------------------------------------------------
(* Handlers running at the same time. The server handles each request in   *)
(* a thread of its own and the handlers take no lock, so the statements of *)
(* one handler interleave with those of another. Each worker runs one      *)
(* handler at a time; a step is one statement that reads or writes the     *)
(* shared dictionaries.                                                    *)

MaxCalls == 2

\* the patient ids the workers post, pairwise distinct
RequestIds ==
    [w \in Workers |-> IF w = "w1" THEN <<"P001", "P003", "P005">>
                                   ELSE <<"P002", "P004", "P006">>]

\* the worker has no handler running
Free(w) == threads[w].pc \in {"idle", "done"}

\* admissions that have started and not yet appended
PendingAdmits ==
    Cardinality({w \in Workers : threads[w].pc \in {"check", "append"}})

\* triage_patient: request parsed and classified
AdmitStart(w) ==
    /\ Free(w)
    /\ threads[w].served < MaxCalls
    /\ TotalQueued(DEPARTMENT_QUEUES) + PendingAdmits < MaxPatients
    /\ \E primary_dept \in Departments :
          threads' = [threads EXCEPT ![w] =
             [pc |-> "check", op |-> "Admit", served |-> @.served + 1,
              patient_id |-> RequestIds[w][@.served + 1],
              risk_level |-> "high",
              primary_department |-> primary_dept,
              assigned_department |-> NoDept,
              overflow |-> FALSE,
              obj |-> TriagePatient("", "", "", 0),
              queue_size |-> 0,
              response |-> [op |-> "none"]]]
    /\ UNCHANGED <<engine, now, call, response>>

\* triage_patient: the load check and the choice of the department
AdmitCheck(w) ==
    /\ threads[w].pc = "check"
    /\ threads' = [threads EXCEPT ![w] =
          [@ EXCEPT !.pc = "append",
                    !.overflow =
                        QueueLen(DEPARTMENT_QUEUES,
                                 threads[w].primary_department)
                           >= CapacityOf(DEPARTMENT_CAPACITY,
                                         threads[w].primary_department),
                    !.assigned_department =
                        Assign(DEPARTMENT_QUEUES, DEPARTMENT_CAPACITY,
                               threads[w].primary_department)]]
    /\ UNCHANGED <<engine, now, call, response>>

\* triage_patient: the entry is built and appended to the queue
AdmitAppend(w) ==
    /\ threads[w].pc = "append"
    /\ LET t   == threads[w]
           obj == TriagePatient(t.patient_id, t.risk_level,
                                t.assigned_department, now)
       IN  /\ DEPARTMENT_QUEUES' =
                 [DEPARTMENT_QUEUES EXCEPT ![t.assigned_department] =
                     Enqueue(@, obj)]
           /\ threads' = [threads EXCEPT ![w] =
                 [@ EXCEPT !.pc = "register", !.obj = obj]]
    /\ UNCHANGED <<DEPARTMENT_CAPACITY, PATIENT_REGISTRY, TRIAGE_SESSION_ID,
                   now, call, response>>

\* triage_patient: the entry is written to the registry
AdmitRegister(w) ==
    /\ threads[w].pc = "register"
    /\ LET t == threads[w]
       IN  PATIENT_REGISTRY' =
              [k \in DOMAIN PATIENT_REGISTRY \cup {t.patient_id} |->
                  IF k = t.patient_id THEN t.obj ELSE PATIENT_REGISTRY[k]]
    /\ threads' = [threads EXCEPT ![w] = [@ EXCEPT !.pc = "measure"]]
    /\ UNCHANGED <<DEPARTMENT_CAPACITY, DEPARTMENT_QUEUES, TRIAGE_SESSION_ID,
                   now, call, response>>

\* triage_patient: queue_size = len(DEPARTMENT_QUEUES[assigned_dept])
AdmitMeasure(w) ==
    /\ threads[w].pc = "measure"
    /\ threads' = [threads EXCEPT ![w] =
          [@ EXCEPT !.pc = "respond",
                    !.queue_size =
                        Len(DEPARTMENT_QUEUES[
                               threads[w].assigned_department])]]
    /\ UNCHANGED <<engine, now, call, response>>

\* triage_patient: the response, with the queue length read again
AdmitRespond(w) ==
    /\ threads[w].pc = "respond"
    /\ LET t == threads[w]
           r == [ok |-> TRUE,
                 patient_id |-> t.patient_id,
                 risk_level |-> t.risk_level,
                 assigned_department |-> t.assigned_department,
                 primary_department |-> t.primary_department,
                 load_balanced |->
                     (t.assigned_department /= t.primary_department),
                 queue_position |->
                     QueuePosition(DEPARTMENT_QUEUES, t.assigned_department),
                 estimated_wait_time_minutes |->
                     RoundHalfEven(t.queue_size * 250, 10)]
       IN  threads' = [threads EXCEPT ![w] =
              [@ EXCEPT !.pc = "done", !.response = AdmitResponse(r)]]
    /\ UNCHANGED <<engine, now, call, response>>

\* init_triage_session: the session id is set
ResetSession(w) ==
    /\ Free(w)
    /\ threads[w].served < MaxCalls
    /\ TRIAGE_SESSION_ID' = SessionIdAt(now)
    /\ threads' = [threads EXCEPT ![w] =
          [pc |-> "queues", op |-> "Reset", served |-> @.served + 1,
           response |-> [op |-> "none"]]]
    /\ UNCHANGED <<DEPARTMENT_CAPACITY, DEPARTMENT_QUEUES, PATIENT_REGISTRY,
                   now, call, response>>

\* init_triage_session: the queues are replaced
ResetQueues(w) ==
    /\ threads[w].pc = "queues"
    /\ DEPARTMENT_QUEUES' = [d \in DOMAIN DEPARTMENT_CAPACITY |-> <<>>]
    /\ threads' = [threads EXCEPT ![w] = [@ EXCEPT !.pc = "registry"]]
    /\ UNCHANGED <<DEPARTMENT_CAPACITY, PATIENT_REGISTRY, TRIAGE_SESSION_ID,
                   now, call, response>>

\* init_triage_session: the registry is replaced
ResetRegistry(w) ==
    /\ threads[w].pc = "registry"
    /\ PATIENT_REGISTRY' = EmptyRegistry
    /\ threads' = [threads EXCEPT ![w] = [@ EXCEPT !.pc = "answer"]]
    /\ UNCHANGED <<DEPARTMENT_CAPACITY, DEPARTMENT_QUEUES, TRIAGE_SESSION_ID,
                   now, call, response>>

\* init_triage_session: the response
ResetRespond(w) ==
    /\ threads[w].pc = "answer"
    /\ threads' = [threads EXCEPT ![w] =
          [@ EXCEPT !.pc = "done",
                    !.response = [op |-> "Reset", success |-> TRUE,
                                  status |-> 200,
                                  session_id |-> TRIAGE_SESSION_ID]]]
    /\ UNCHANGED <<engine, now, call, response>>

\* department_status: the loop over the departments begins
StatusStart(w) ==
    /\ Free(w)
    /\ threads[w].served < MaxCalls
    /\ threads' = [threads EXCEPT ![w] =
          [pc |-> "scan", op |-> "Status", served |-> @.served + 1,
           pending |-> DeptOrder,
           department_status |->
               [d \in {} |-> DepartmentStatus(<<>>, DefaultCapacity)],
           response |-> [op |-> "none"]]]
    /\ UNCHANGED <<engine, now, call, response>>

\* department_status: one iteration of the loop
StatusScan(w) ==
    /\ threads[w].pc = "scan"
    /\ LET t    == threads[w]
           dept == Head(t.pending)
           seen == [d \in DOMAIN t.department_status \cup {dept} |->
                      IF d = dept
                      THEN DepartmentStatus(DEPARTMENT_QUEUES[dept],
                               CapacityOf(DEPARTMENT_CAPACITY, dept))
                      ELSE t.department_status[d]]
       IN  threads' = [threads EXCEPT ![w] =
              [@ EXCEPT !.pc = IF Tail(t.pending) = <<>> THEN "total"
                                                        ELSE "scan",
                        !.pending = Tail(t.pending),
                        !.department_status = seen]]
    /\ UNCHANGED <<engine, now, call, response>>

\* department_status: the response, with len(PATIENT_REGISTRY)
StatusTotal(w) ==
    /\ threads[w].pc = "total"
    /\ threads' = [threads EXCEPT ![w] =
          [@ EXCEPT !.pc = "done",
                    !.response =
                       [op |-> "Status", success |-> TRUE, status |-> 200,
                        session_id |-> TRIAGE_SESSION_ID,
                        department_status |->
                            threads[w].department_status,
                        total_patients_in_system |->
                            Cardinality(DOMAIN PATIENT_REGISTRY)]]]
    /\ UNCHANGED <<engine, now, call, response>>

AdmitThread(w) ==
    \/ AdmitStart(w) \/ AdmitCheck(w) \/ AdmitAppend(w)
    \/ AdmitRegister(w) \/ AdmitMeasure(w) \/ AdmitRespond(w)

ResetThread(w) ==
    \/ ResetSession(w) \/ ResetQueues(w)
    \/ ResetRegistry(w) \/ ResetRespond(w)

StatusThread(w) == StatusStart(w) \/ StatusScan(w) \/ StatusTotal(w)

\* Admissions and status requests at the same time, no reset
NextThreads == \E w \in Workers : AdmitThread(w) \/ StatusThread(w)

SpecThreads == Init /\ [][NextThreads]_vars

\* Admissions and resets at the same time
NextBarrier == \E w \in Workers : AdmitThread(w) \/ ResetThread(w)

SpecBarrier == Init /\ [][NextBarrier]_vars

\* Patients posted in SpecDominance: no id, every risk label, one department
DominanceInputs ==
    [patient_id : {NoId}, pain_level : {"whole"}, store : {"up"},
     outcome : [kind : {"classified"}, risk_level : RiskLabels,
                department : {"Emergency"}]]

AdmitRanked == AdmitFrom(DominanceInputs)

ListEmergency == QueuePriorityOf({"Emergency"}, {"all"})

\* Admissions of every risk level, short and long waits, and full listings
NextDominance == Tick \/ Leap \/ AdmitRanked \/ ListEmergency

SpecDominance == Init /\ [][NextDominance]_vars

\* Patients posted in SpecOrder: two ids, one risk label, one department
OrderIds == {"P001", "P002"}

OrderInputs ==
    [patient_id : OrderIds, pain_level : {"whole"}, store : {"up"},
     outcome : [kind : {"classified"}, risk_level : {"high"},
                department : {"Emergency"}]]

AdmitOrdered == AdmitFrom(OrderInputs)

\* Admissions of patients that can be told apart, and full listings
NextOrder == Tick \/ AdmitOrdered \/ ListEmergency

SpecOrder == Init /\ [][NextOrder]_vars

\* json.load(f) of the capacity file: whatever numbers the file holds
LoadedConfigs == [Departments -> 0..MaxCapacity]

InitLoaded ==
    /\ DEPARTMENT_CAPACITY \in LoadedConfigs
    /\ DEPARTMENT_QUEUES = EmptyQueues
    /\ PATIENT_REGISTRY = EmptyRegistry
    /\ TRIAGE_SESSION_ID = NoSession
    /\ now = 0
    /\ call = [op |-> "none"]
    /\ response = [op |-> "none"]
    /\ threads = NoThreads

\* Startup from a capacity file, then updates, admissions, resets and reads
\* of the department status
NextLoaded == Reset \/ AdmitCounted \/ UpdateCapacity \/ Status

SpecLoaded == InitLoaded /\ [][NextLoaded]_vars

----------------------------------------------------------------------------
(* The priority score as a function of the clock: one entry, admitted at    *)
(* any arrival time with any risk value the classifier may produce, scored  *)
(* at later and later clock readings.                                       *)

RiskValues == RiskLabels \cup {"critical"}

InitScore ==
    \E risk_level \in RiskValues, arrival_time \in 0..MaxArrival :
       LET obj == TriagePatient("P001", risk_level, "Emergency", arrival_time)
       IN  /\ DEPARTMENT_CAPACITY = [d \in Departments |-> MaxCapacity]
           /\ DEPARTMENT_QUEUES = [EmptyQueues EXCEPT !["Emergency"] = <<obj>>]
           /\ PATIENT_REGISTRY = [k \in {"P001"} |-> obj]
           /\ TRIAGE_SESSION_ID = NoSession
           /\ now = arrival_time
           /\ call = [op |-> "none"]
           /\ response = [op |-> "none"]
           /\ threads = NoThreads

\* p._calculate_priority() at a clock reading not before the last one
Rescore ==
    \E d \in DOMAIN DEPARTMENT_QUEUES, t \in now..MaxMinutes :
      \E i \in 1..Len(DEPARTMENT_QUEUES[d]) :
         LET p == DEPARTMENT_QUEUES[d][i]
         IN  /\ now' = t
             /\ response' = [op |-> "Score",
                             risk_level |-> p.risk_level,
                             arrival_time |-> p.arrival_time,
                             at |-> t,
                             priority_score |-> CalculatePriority(p, t)]
             /\ call' = [op |-> "Score"]
             /\ UNCHANGED <<engine, threads>>

NextScore == Rescore

SpecScore == InitScore /\ [][NextScore]_vars

----------------------------------------------------------------------------
(* Properties of admission and routing, checked under Spec *)

QueuePositions(queues) ==
    {<<d, i>> : d \in DOMAIN queues, i \in 1..MaxPatients + MaxBatch} \cap
    UNION {{<<d, i>> : i \in 1..Len(queues[d])} : d \in DOMAIN queues}

QueueMembers(queues) == {queues[pos[1]][pos[2]] : pos \in QueuePositions(queues)}

RegistryMembers(registry) == {registry[k] : k \in DOMAIN registry}

\* d is a department of globally minimum queue size
MinLoad(queues, d) ==
    \A e \in DOMAIN queues : Len(queues[d]) <= Len(queues[e])

\* a step of triage_patient that admitted a patient
AdmitStep ==
    /\ call'.op = "Admit"
    /\ call'.routed /= <<>>
    /\ DEPARTMENT_QUEUES' /= DEPARTMENT_QUEUES

\* a step of triage_patient or triage_batch_stream that admitted patients
AdmissionStep ==
    /\ call'.op \in {"Admit", "AdmitBatch"}
    /\ DEPARTMENT_QUEUES' /= DEPARTMENT_QUEUES

\* C1 (as claimed): after every Reset, Admit and AdmitBatch the lengths of the
\* department queues add up to the number of entries of the registry.
ConservationC1 ==
    TotalQueued(DEPARTMENT_QUEUES) = Cardinality(DOMAIN PATIENT_REGISTRY)

\* C2 (as claimed): no patient_id occurs in two queue entries, and the
\* members of the registry are exactly the members of the queues.
SingleQueueC2 ==
    /\ \A pos1, pos2 \in QueuePositions(DEPARTMENT_QUEUES) :
          pos1 /= pos2 =>
             DEPARTMENT_QUEUES[pos1[1]][pos1[2]].patient_id
                 /= DEPARTMENT_QUEUES[pos2[1]][pos2[2]].patient_id
    /\ RegistryMembers(PATIENT_REGISTRY) = QueueMembers(DEPARTMENT_QUEUES)

\* C3: when the primary department's queue size equals its capacity just
\* before an Admit, the patient is assigned to another department unless the
\* primary is a department of globally minimum queue size.
OverflowTriggerC3 ==
    [][AdmitStep =>
         LET primary  == call'.routed[1].primary
             assigned == call'.routed[1].assigned
         IN  Len(DEPARTMENT_QUEUES[primary]) = DEPARTMENT_CAPACITY[primary]
                => \/ assigned /= primary
                   \/ MinLoad(DEPARTMENT_QUEUES, primary)]_vars

\* C3 witness: an Admit found its primary department exactly at capacity and
\* put the patient elsewhere.
OverflowTriggerC3Witness ==
    /\ call.op = "Admit"
    /\ call.routed /= <<>>
    /\ call.routed[1].assigned /= call.routed[1].primary
    /\ Len(DEPARTMENT_QUEUES[call.routed[1].primary])
          = DEPARTMENT_CAPACITY[call.routed[1].primary]

\* C4: every patient admitted by Admit or AdmitBatch goes to the primary
\* department when that queue is shorter than its capacity, and otherwise to
\* a department of minimum queue size whatever that department's capacity;
\* the patient is appended to the queue of that department.
RoutingC4 ==
    [][AdmissionStep =>
         LET routed == call'.routed
             Into(d, n) == Cardinality({j \in 1..n : routed[j].assigned = d})
             Before(d, i) == Len(DEPARTMENT_QUEUES[d]) + Into(d, i - 1)
         IN  /\ \A i \in 1..Len(routed) :
                  LET primary == routed[i].primary
                      target  == routed[i].assigned
                  IN  IF Before(primary, i) < DEPARTMENT_CAPACITY[primary]
                      THEN target = primary
                      ELSE \A d \in DOMAIN DEPARTMENT_QUEUES :
                              Before(target, i) <= Before(d, i)
             /\ \A d \in DOMAIN DEPARTMENT_QUEUES :
                  Len(DEPARTMENT_QUEUES'[d]) = Before(d, Len(routed) + 1)]_vars

\* C4 witness: the second patient of a batch overflowed into a department
\* that was itself at or over its capacity.
RoutingC4Witness ==
    /\ call.op = "AdmitBatch"
    /\ Len(call.routed) = 2
    /\ call.routed[2].assigned /= call.routed[2].primary
    /\ Len(DEPARTMENT_QUEUES[call.routed[2].assigned]) - 1
          >= DEPARTMENT_CAPACITY[call.routed[2].assigned]

\* C5: a successful Admit returns as queue_position the size of the assigned
\* queue after the insertion, as estimated wait 2.5 minutes per position, and
\* load_balanced exactly when the assigned department is not the primary.
AdmissionResultC5 ==
    [][AdmitStep =>
         LET assigned == response'.assigned_department
         IN  /\ response'.success
             /\ response'.queue_position = Len(DEPARTMENT_QUEUES[assigned]) + 1
             /\ response'.queue_position = Len(DEPARTMENT_QUEUES'[assigned])
             /\ response'.estimated_wait_time_minutes
                   = 25 * response'.queue_position
             /\ response'.load_balanced
                   <=> (assigned /= response'.primary_department)]_vars

\* C5 witness: the second admission into a department, not load-balanced,
\* got position 2 and 5.0 minutes.
AdmissionResultC5Witness ==
    /\ call.op = "Admit"
    /\ response.success
    /\ response.queue_position = 2
    /\ response.estimated_wait_time_minutes = 50
    /\ ~response.load_balanced

----------------------------------------------------------------------------
(* Properties of the priority score, checked under SpecScore *)

\* the base scores as the specification states them
StatedBase(risk_level) ==
    IF risk_level = "high" THEN 100 ELSE IF risk_level = "medium" THEN 50 ELSE 10

\* C6: the score at a clock reading is base + min(0.1 * wait_minutes, 30) with
\* base 100, 50, 10 for high, medium, low and 10 for any other risk value; a
\* low-risk entry that waited 300 minutes scores 40.
PriorityScoreC6 ==
    response.op = "Score" =>
       LET wait == response.at - response.arrival_time
           bonus == IF wait * 100 <= 30000 THEN wait * 100 ELSE 30000
       IN  /\ response.priority_score
                 = StatedBase(response.risk_level) * 1000 + bonus
           /\ (response.risk_level = "low" /\ wait = 300)
                 => response.priority_score = 40000

\* C6 witness: a low-risk entry scored after 300 minutes, with score 40.
PriorityScoreC6Witness ==
    /\ response.op = "Score"
    /\ response.risk_level = "low"
    /\ response.at - response.arrival_time = 300
    /\ response.priority_score = 40000

\* C7: a later clock reading never gives the same entry a lower score, and the
\* wait bonus (score minus base) never exceeds 30.
PriorityMonotoneC7 ==
    [][response'.op = "Score" =>
         /\ response'.priority_score
               - StatedBase(response'.risk_level) * 1000 <= 30000
         /\ (response.op = "Score" /\ response'.at >= response.at)
               => response'.priority_score >= response.priority_score]_vars

\* C7 witness: an entry scored after more than 300 minutes, with the bonus at
\* its cap of 30.
PriorityMonotoneC7Witness ==
    /\ response.op = "Score"
    /\ response.at - response.arrival_time > 300
    /\ response.priority_score
          = StatedBase(response.risk_level) * 1000 + 30000

----------------------------------------------------------------------------
(* Properties of the prioritized queue, checked under SpecQueue *)

EntryKey(x) == <<x.patient_id, x.risk_level, x.arrival_time>>

Occurrences(seq, k) == Cardinality({i \in 1..Len(seq) : EntryKey(seq[i]) = k})

SameEntries(seq1, seq2) ==
    /\ Len(seq1) = Len(seq2)
    /\ \A i \in 1..Len(seq1) :
          Occurrences(seq1, EntryKey(seq1[i])) = Occurrences(seq2, EntryKey(seq1[i]))

\* the last call listed a queue by risk category or in full
ListedByCategory ==
    /\ call.op = "QueuePriority"
    /\ response.success
    /\ call.category \in {"all", "high", "medium", "low"}

\* the listing holds exactly the entries of the category
ListsExactlyTheCategory ==
    ListedByCategory =>
       LET queue == DEPARTMENT_QUEUES[call.department]
           expected == IF call.category = "all" THEN queue
                       ELSE SelectSeq(queue,
                                      LAMBDA p : p.risk_level = call.category)
       IN  SameEntries(response.prioritized_queue, expected)

\* the reported scores do not increase down the listing
ListsByDescendingScore ==
    ListedByCategory =>
       LET listed == response.prioritized_queue
       IN  \A i \in 1..(Len(listed) - 1) :
              listed[i].priority_score >= listed[i + 1].priority_score

UnknownDepartmentC9 ==
    [][(call'.op = "QueuePriority"
          /\ call'.department \notin DOMAIN DEPARTMENT_CAPACITY)
        => /\ ~response'.success
           /\ response'.status = 400
           /\ response'.error = "Invalid department"
           /\ UNCHANGED engine]_vars

\* C9 witness: the queue of an unknown department was asked for while
\* patients were queued, and the call failed.
UnknownDepartmentC9Witness ==
    /\ call.op = "QueuePriority"
    /\ call.department = UnknownDept
    /\ ~response.success
    /\ TotalQueued(DEPARTMENT_QUEUES) > 0

----------------------------------------------------------------------------
(* Properties of capacity administration, checked under SpecCapacity *)

\* C10: setting a known department's capacity to 0 or to a negative value
\* fails with the invalid-capacity error, setting an unknown department's
\* capacity to a positive value fails with the unknown-department error, and
\* no rejected update changes the capacity mapping.
CapacityValidationC10 ==
    [][call'.op = "UpdateCapacity" =>
         LET d == call'.department
             c == call'.capacity
         IN  /\ (d \in DOMAIN DEPARTMENT_CAPACITY /\ c.type = "int"
                   /\ c.tenths <= 0)
                  => /\ ~response'.success
                     /\ response'.error = "Capacity must be a positive integer"
             /\ (d \notin DOMAIN DEPARTMENT_CAPACITY /\ d /= NoDept
                   /\ c.type = "int" /\ c.tenths > 0)
                  => /\ ~response'.success
                     /\ response'.error = "Department not found"
             /\ ~response'.success => UNCHANGED DEPARTMENT_CAPACITY]_vars

\* C10 witness: an update of a known department to -5 was rejected.
CapacityValidationC10Witness ==
    /\ call.op = "UpdateCapacity"
    /\ call.department \in DOMAIN DEPARTMENT_CAPACITY
    /\ call.capacity = [type |-> "int", tenths |-> -50]
    /\ ~response.success

\* C11 (as claimed): an update whose capacity is not an integer, a number with
\* a fraction or a text that is not a number, is rejected with the
\* invalid-capacity error and leaves the stored capacities as they were.
NonIntegerCapacityC11 ==
    [][(call'.op = "UpdateCapacity" /\ call'.department /= NoDept
          /\ call'.capacity.type \in {"float", "text"})
        => /\ ~response'.success
           /\ response'.error = "Capacity must be a positive integer"
           /\ UNCHANGED DEPARTMENT_CAPACITY]_vars

\* C12 (as claimed): in every state from startup on, every known department
\* has a capacity > 0, and the set of department names is the one of startup.
CapacityPositiveC12 ==
    /\ \A d \in DOMAIN DEPARTMENT_CAPACITY : DEPARTMENT_CAPACITY[d] > 0
    /\ DOMAIN DEPARTMENT_CAPACITY = Departments
    /\ DOMAIN DEPARTMENT_QUEUES = Departments

----------------------------------------------------------------------------
(* Properties of reset and status, checked under SpecStatus and Spec *)

\* C13: right after a Reset every department queue and the registry are
\* empty, and a Status that follows it reports current_patients = 0 for every
\* department and total_patients_in_system = 0.
ResetCompleteC13 ==
    /\ call.op = "Reset" =>
          /\ \A d \in DOMAIN DEPARTMENT_QUEUES : DEPARTMENT_QUEUES[d] = <<>>
          /\ PATIENT_REGISTRY = EmptyRegistry
    /\ (call.op = "Status" /\ call.after = "Reset") =>
          /\ response.success
          /\ \A d \in DOMAIN DEPARTMENT_CAPACITY :
                response.department_status[d].current_patients = 0
          /\ response.total_patients_in_system = 0

\* C13 witness: a Status right after a Reset that dropped queued patients
\* reported an empty system.
ResetCompleteC13Witness ==
    /\ call.op = "Status"
    /\ call.after = "Reset"
    /\ call.cleared > 0
    /\ response.total_patients_in_system = 0

\* C14 (as claimed): a Reset returns a session identifier different from the
\* one the Reset before it returned (the identifier in force until then),
\* however close in time the two are.
FreshSessionC14 ==
    [][(call'.op = "Reset" /\ now' = now /\ TRIAGE_SESSION_ID /= NoSession)
        => /\ response'.session_id = TRIAGE_SESSION_ID'
           /\ response'.session_id /= TRIAGE_SESSION_ID]_vars

\* C15: Status reports CRITICAL iff utilization > 100, AT_CAPACITY iff
\* 80 < utilization <= 100, BUSY iff 50 < utilization <= 80 and AVAILABLE iff
\* utilization <= 50, with utilization = 100 * queue size / capacity.
StatusTierC15 ==
    (call.op = "Status" /\ response.success) =>
       \A d \in DOMAIN DEPARTMENT_CAPACITY :
          LET size == Len(DEPARTMENT_QUEUES[d])
              capacity == DEPARTMENT_CAPACITY[d]
              tier == response.department_status[d].status
          IN  /\ tier \in {"CRITICAL", "AT_CAPACITY", "BUSY", "AVAILABLE"}
              /\ tier = "CRITICAL" <=> 100 * size > 100 * capacity
              /\ tier = "AT_CAPACITY" <=> (100 * size > 80 * capacity
                                            /\ 100 * size <= 100 * capacity)
              /\ tier = "BUSY" <=> (100 * size > 50 * capacity
                                     /\ 100 * size <= 80 * capacity)
              /\ tier = "AVAILABLE" <=> 100 * size <= 50 * capacity

\* C15 witness: one Status reported a department exactly at its capacity as
\* AT_CAPACITY and a department between half and four fifths full as BUSY.
StatusTierC15Witness ==
    /\ call.op = "Status"
    /\ response.success
    /\ \E d, e \in DOMAIN DEPARTMENT_CAPACITY :
          /\ Len(DEPARTMENT_QUEUES[d]) = DEPARTMENT_CAPACITY[d]
          /\ response.department_status[d].status = "AT_CAPACITY"
          /\ 2 * Len(DEPARTMENT_QUEUES[e]) > DEPARTMENT_CAPACITY[e]
          /\ Len(DEPARTMENT_QUEUES[e]) < DEPARTMENT_CAPACITY[e]
          /\ response.department_status[e].status = "BUSY"

----------------------------------------------------------------------------
(* Properties of batch admission, checked under SpecBatch *)

\* a step of triage_batch_stream
BatchStep ==
    /\ call'.op = "AdmitBatch"
    /\ (call' /= call \/ engine' /= engine)

\* a step of triage_patient
SingleStep ==
    /\ call'.op = "Admit"
    /\ (call' /= call \/ engine' /= engine)

\* single Admit calls for the patients of a list, one after the other, at the
\* given clock readings
RECURSIVE SingleAdmits(_, _, _, _, _, _)
SingleAdmits(queues, registry, caps, patients, reads, responses) ==
    IF patients = <<>>
    THEN [queues |-> queues, registry |-> registry, responses |-> responses]
    ELSE LET r == AdmitOne(queues, registry, caps,
                           ParsedBy("triage_patient", Head(patients)),
                           Head(reads))
         IN  SingleAdmits(r.queues, r.registry, caps, Tail(patients),
                          Tail(reads), Append(responses, AdmitResponse(r)))

AdmissionResultFields ==
    {"assigned_department", "queue_position", "estimated_wait_time_minutes",
     "load_balanced"}

SameAdmissionResult(a, b) ==
    \A f \in AdmissionResultFields :
       f \in DOMAIN a /\ f \in DOMAIN b /\ a[f] = b[f]

\* the entries of a posted list on which the batch iteration does not raise
Admissible(patients) == {i \in 1..Len(patients) : ~Raises(patients[i])}

\* C16 (as claimed): a batch in which no entry fails leaves the queues and the
\* registry that single Admit calls on its entries, in order and at the same
\* clock readings, leave; patients_processed is the length of the list; and
\* the i-th result carries the assigned department, queue position, estimated
\* wait and load-balanced flag of the i-th single Admit.
BatchAsSinglesC16 ==
    [][(BatchStep /\ response'.success) =>
         LET patients == call'.patients
             singles == SingleAdmits(DEPARTMENT_QUEUES, PATIENT_REGISTRY,
                                     DEPARTMENT_CAPACITY, patients,
                                     call'.reads, <<>>)
         IN  /\ DEPARTMENT_QUEUES' = singles.queues
             /\ PATIENT_REGISTRY' = singles.registry
             /\ response'.patients_processed = Len(patients)
             /\ \A i \in 1..Len(patients) :
                   SameAdmissionResult(response'.results[i],
                                       singles.responses[i])]_vars

\* C17 (as claimed): when an entry of a batch fails, the entries after it are
\* still processed, so every entry that does not fail is admitted, and the
\* result lists the entries that succeeded.
BatchContinuesC17 ==
    [][BatchStep =>
         /\ TotalQueued(DEPARTMENT_QUEUES')
               = TotalQueued(DEPARTMENT_QUEUES)
                    + Cardinality(Admissible(call'.patients))
         /\ "results" \in DOMAIN response'
         /\ Len(response'.results) = Cardinality(Admissible(call'.patients))]_vars

\* queue is the front part of longer
IsPrefix(queue, longer) ==
    /\ Len(queue) <= Len(longer)
    /\ SubSeq(longer, 1, Len(queue)) = queue

\* C18: when the k-th entry of a batch fails, the k-1 entries admitted before
\* it stay: every queue keeps what it held and the k-1 new entries are in the
\* queues they were assigned to and in the registry.
BatchNotAtomicC18 ==
    [][(BatchStep /\ ~response'.success) =>
         LET k == Len(call'.reads)
             routed == call'.routed
             Into(d) == Cardinality({j \in 1..Len(routed) :
                                        routed[j].assigned = d})
         IN  /\ Len(routed) = k - 1
             /\ \A d \in DOMAIN DEPARTMENT_QUEUES :
                   /\ IsPrefix(DEPARTMENT_QUEUES[d], DEPARTMENT_QUEUES'[d])
                   /\ Len(DEPARTMENT_QUEUES'[d])
                         = Len(DEPARTMENT_QUEUES[d]) + Into(d)
             /\ \A i \in 1..(k - 1) :
                   LET id == ResolveId(call'.patients[i].patient_id,
                                       call'.reads[i])
                       queue == DEPARTMENT_QUEUES'[routed[i].assigned]
                   IN  /\ id \in DOMAIN PATIENT_REGISTRY'
                       /\ \E j \in (Len(DEPARTMENT_QUEUES[routed[i].assigned]) + 1)
                                      ..Len(queue) :
                             /\ queue[j].patient_id = id
                             /\ queue[j].arrival_time = call'.reads[i]]_vars

\* C18 witness: the second entry of a batch failed and the first one is in a
\* queue and in the registry.
BatchNotAtomicC18Witness ==
    /\ call.op = "AdmitBatch"
    /\ ~response.success
    /\ Len(call.reads) = 2
    /\ Len(call.routed) = 1
    /\ \E j \in 1..Len(DEPARTMENT_QUEUES[call.routed[1].assigned]) :
          DEPARTMENT_QUEUES[call.routed[1].assigned][j].patient_id
              = ResolveId(call.patients[1].patient_id, call.reads[1])
    /\ ResolveId(call.patients[1].patient_id, call.reads[1])
          \in DOMAIN PATIENT_REGISTRY

----------------------------------------------------------------------------
(* Properties of failing admissions, checked under SpecAdmit and SpecStore *)

\* C19 (as claimed): a single Admit that ends in an error leaves every
\* department queue and the registry as they were before the call.
AdmitErrorFrameC19 ==
    [][(call'.op = "Admit" /\ ~response'.success)
        => UNCHANGED <<DEPARTMENT_QUEUES, PATIENT_REGISTRY>>]_vars

\* the posted patients with the patient store up
StoreUp(patients) == [i \in 1..Len(patients) |-> [patients[i] EXCEPT !.store = "up"]]

\* C20: an Admit or AdmitBatch during which the patient store fails succeeds
\* all the same, with the response, the queues and the registry of the same
\* call made while the store works.
PersistenceC20 ==
    [][/\ SingleStep =>
            LET r == AdmitOne(DEPARTMENT_QUEUES, PATIENT_REGISTRY,
                              DEPARTMENT_CAPACITY,
                              ParsedBy("triage_patient",
                                       StoreUp(call'.patients)[1]), now)
            IN  /\ r.ok
                /\ response' = AdmitResponse(r)
                /\ DEPARTMENT_QUEUES' = r.queues
                /\ PATIENT_REGISTRY' = r.registry
       /\ BatchStep =>
            LET r == BatchLoop(DEPARTMENT_QUEUES, PATIENT_REGISTRY,
                               DEPARTMENT_CAPACITY, StoreUp(call'.patients),
                               call'.reads, <<>>, <<>>)
            IN  /\ r.ok
                /\ response'.success
                /\ Len(call'.reads) = Len(call'.patients)
                /\ response'.results = r.results
                /\ DEPARTMENT_QUEUES' = r.queues
                /\ PATIENT_REGISTRY' = r.registry]_vars

\* C20 witness: a batch of two patients was admitted in full while the
\* patient store was down for both.
PersistenceC20Witness ==
    /\ call.op = "AdmitBatch"
    /\ Len(call.patients) = 2
    /\ \A i \in 1..2 : call.patients[i].store = "down"
    /\ response.success
    /\ response.patients_processed = 2

----------------------------------------------------------------------------
(* Properties of the queues over all handlers, checked under SpecAll,      *)
(* SpecCapacity and Spec                                                   *)

\* a step of init_triage_session
ResetStep == call'.op = "Reset" /\ now' = now

\* C23: a step of any handler other than Reset leaves every department queue
\* a prefix of what it becomes: entries are only appended at the tail.
PrefixGrowthC23 ==
    [][~ResetStep =>
         \A d \in DOMAIN DEPARTMENT_QUEUES :
            /\ d \in DOMAIN DEPARTMENT_QUEUES'
            /\ IsPrefix(DEPARTMENT_QUEUES[d], DEPARTMENT_QUEUES'[d])]_vars

\* C23 witness: a queue that two admissions at different clock readings
\* filled was listed, and still holds the two entries in call order.
PrefixGrowthC23Witness ==
    /\ call.op = "QueuePriority"
    /\ response.success
    /\ Len(DEPARTMENT_QUEUES[call.department]) >= 2
    /\ DEPARTMENT_QUEUES[call.department][1].arrival_time
          < DEPARTMENT_QUEUES[call.department][2].arrival_time

\* C24: a successful capacity update of department d sets d's capacity to the
\* new value, returns the previous and the new value, and leaves the other
\* capacities, the queues, the registry and the session id as they were.
CapacityFrameC24 ==
    [][(call'.op = "UpdateCapacity" /\ now' = now /\ response'.success) =>
         LET d == call'.department
         IN  /\ response'.department = d
             /\ response'.old_capacity = DEPARTMENT_CAPACITY[d]
             /\ response'.new_capacity = DEPARTMENT_CAPACITY'[d]
             /\ call'.capacity.type = "int"
                   => 10 * DEPARTMENT_CAPACITY'[d] = call'.capacity.tenths
             /\ \A e \in DOMAIN DEPARTMENT_CAPACITY \ {d} :
                   DEPARTMENT_CAPACITY'[e] = DEPARTMENT_CAPACITY[e]
             /\ DOMAIN DEPARTMENT_CAPACITY' = DOMAIN DEPARTMENT_CAPACITY
             /\ UNCHANGED <<DEPARTMENT_QUEUES, PATIENT_REGISTRY,
                            TRIAGE_SESSION_ID>>]_vars

\* C24 witness: a department's capacity was set below the size of its queue,
\* while the other department keeps a different capacity.
CapacityFrameC24Witness ==
    /\ call.op = "UpdateCapacity"
    /\ response.success
    /\ response.new_capacity < Len(DEPARTMENT_QUEUES[call.department])
    /\ response.new_capacity /= response.old_capacity
    /\ \E e \in DOMAIN DEPARTMENT_CAPACITY :
          DEPARTMENT_CAPACITY[e] /= response.new_capacity

\* C27: every entry in the queue of department d has department = d, the
\* queues and the capacities have the same departments, and a listing
\* filtered by a department name holds the whole queue when the name is the
\* department listed and nothing otherwise.
DepartmentFieldC27 ==
    /\ \A d \in DOMAIN DEPARTMENT_QUEUES :
          \A i \in 1..Len(DEPARTMENT_QUEUES[d]) :
             DEPARTMENT_QUEUES[d][i].department = d
    /\ DOMAIN DEPARTMENT_QUEUES = DOMAIN DEPARTMENT_CAPACITY
    /\ (call.op = "QueuePriority" /\ response.success
          /\ call.category \in DOMAIN DEPARTMENT_QUEUES)
         => response.filtered_count
               = IF call.category = call.department
                 THEN response.total_in_queue ELSE 0

\* C27 witness: a queue with patients was listed with the name of the other
\* department as the filter, and the listing was empty.
DepartmentFieldC27Witness ==
    /\ call.op = "QueuePriority"
    /\ response.success
    /\ call.category \in DOMAIN DEPARTMENT_QUEUES
    /\ call.category /= call.department
    /\ response.total_in_queue > 0
    /\ response.filtered_count = 0

\* C28: with Reset, Admit and AdmitBatch run one at a time, the registry has
\* at most as many entries as the queues together, and every registry value
\* is an entry of some queue.
RegistryWithinQueuesC28 ==
    /\ Cardinality(DOMAIN PATIENT_REGISTRY) <= TotalQueued(DEPARTMENT_QUEUES)
    /\ RegistryMembers(PATIENT_REGISTRY) \subseteq QueueMembers(DEPARTMENT_QUEUES)

\* C28 witness: the queues hold more entries than the registry, which is not
\* empty.
RegistryWithinQueuesC28Witness ==
    /\ Cardinality(DOMAIN PATIENT_REGISTRY) < TotalQueued(DEPARTMENT_QUEUES)
    /\ PATIENT_REGISTRY /= EmptyRegistry

----------------------------------------------------------------------------
(* Properties of the order of the listing, checked under SpecDominance and *)
(* SpecOrder                                                               *)

RiskRank(risk_level) ==
    IF risk_level = "high" THEN 3 ELSE IF risk_level = "medium" THEN 2 ELSE 1

\* the last call listed a whole queue
ListedInFull ==
    /\ call.op = "QueuePriority"
    /\ response.success
    /\ call.category = "all"

\* C25: in a listing every high-risk entry comes before every medium-risk and
\* low-risk entry and every medium-risk entry before every low-risk entry,
\* whatever the waiting times and the clock readings of the listing.
RiskDominanceC25 ==
    ListedInFull =>
       LET listed == response.prioritized_queue
       IN  /\ SameEntries(listed, DEPARTMENT_QUEUES[call.department])
           /\ \A i, j \in 1..Len(listed) :
                 i < j => RiskRank(listed[i].risk_level)
                             >= RiskRank(listed[j].risk_level)

\* C25 witness: a low-risk entry whose wait bonus is at its cap of 30 (score
\* 40) was admitted first and is listed after a high-risk entry that has not
\* waited (score 100).
RiskDominanceC25Witness ==
    /\ ListedInFull
    /\ Len(DEPARTMENT_QUEUES[call.department]) >= 2
    /\ DEPARTMENT_QUEUES[call.department][1].risk_level = "low"
    /\ \E i, j \in 1..Len(response.prioritized_queue) :
          /\ i < j
          /\ response.prioritized_queue[i].risk_level = "high"
          /\ response.prioritized_queue[i].priority_score = 10000
          /\ response.prioritized_queue[j].risk_level = "low"
          /\ response.prioritized_queue[j].priority_score = 4000

\* positions of the entries of a queue that have the key k
IndicesOf(queue, k) == {i \in 1..Len(queue) : EntryKey(queue[i]) = k}

\* every entry with key k1 was admitted before every entry with key k2
AdmittedBefore(queue, k1, k2) ==
    /\ IndicesOf(queue, k1) /= {}
    /\ IndicesOf(queue, k2) /= {}
    /\ \A i \in IndicesOf(queue, k1), j \in IndicesOf(queue, k2) : i < j

\* C26 (as claimed): in a listing an entry admitted earlier never comes after
\* an entry of the same risk level admitted later.
ArrivalOrderC26 ==
    ListedInFull =>
       LET listed == response.prioritized_queue
           queue == DEPARTMENT_QUEUES[call.department]
       IN  \A i, j \in 1..Len(listed) :
              (i < j /\ listed[i].risk_level = listed[j].risk_level)
                 => ~AdmittedBefore(queue, EntryKey(listed[j]),
                                    EntryKey(listed[i]))

----------------------------------------------------------------------------
(* Properties of handlers that run at the same time, checked under         *)
(* SpecThreads and SpecBarrier                                             *)

\* no handler is running
Quiescent == \A w \in Workers : Free(w)

\* the ids of the entries in the queues
QueuedIds ==
    UNION {{DEPARTMENT_QUEUES[d][i].patient_id :
               i \in 1..Len(DEPARTMENT_QUEUES[d])} :
           d \in DOMAIN DEPARTMENT_QUEUES}

\* C21 (as claimed): once the resets and admissions that ran at the same time
\* have all completed, a patient is in the registry exactly if it is in a
\* department queue.
ResetBarrierC21 ==
    Quiescent => DOMAIN PATIENT_REGISTRY = QueuedIds

\* C22 (as claimed): an admission that found its primary department below
\* capacity appends to it only while the queue still holds fewer entries than
\* the capacity.
AtomicCheckC22 ==
    [][\A w \in Workers :
          (/\ threads[w].pc = "append"
           /\ threads'[w].pc = "register"
           /\ ~threads[w].overflow)
          => QueueLen(DEPARTMENT_QUEUES, threads[w].primary_department)
                < CapacityOf(DEPARTMENT_CAPACITY,
                             threads[w].primary_department)]_vars

\* the worker has answered an admission
Admitted(w) == threads[w].pc = "done" /\ threads[w].op = "Admit"

\* C29 (as claimed): two admissions assigned to the same department are told
\* different queue positions.
DistinctPositionsC29 ==
    \A v, w \in Workers :
       (/\ v /= w
        /\ Admitted(v)
        /\ Admitted(w)
        /\ threads[v].response.assigned_department
              = threads[w].response.assigned_department)
       => threads[v].response.queue_position
             /= threads[w].response.queue_position

RECURSIVE SumOver(_, _)
SumOver(f, S) ==
    IF S = {} THEN 0
    ELSE LET d == CHOOSE x \in S : TRUE
         IN  f[d].current_patients + SumOver(f, S \ {d})

\* C30 (as claimed): the total a status response reports equals the sum of
\* the current_patients it reports.
StatusSnapshotC30 ==
    \A w \in Workers :
       (threads[w].pc = "done" /\ threads[w].op = "Status")
       => threads[w].response.total_patients_in_system
             = SumOver(threads[w].response.department_status,
                       DOMAIN threads[w].response.department_status)

====
